---- MODULE Spec2Model ----
(***************************************************************************)
(* Model of the RDF graph query service of src/app/semacroissant.py: the   *)
(* process-wide graph, the load handler with its snapshot write, the query *)
(* handlers, and the identifier clean-up functions.                        *)
(*                                                                         *)
(* Python strings are TLA+ strings; Len, \o, SubSeq, Head and Tail apply   *)
(* to them character by character.                                         *)
(***************************************************************************)
EXTENDS FiniteSets, Integers, Sequences, TLC

VARIABLES graph, namespaces, environ, fs, resp, lastLoaded, tasks

vars == <<graph, namespaces, environ, fs, resp, lastLoaded, tasks>>

(***************************************************************************)
(* Bounds.                                                                 *)
(***************************************************************************)
\* largest number of triples in the document chosen for /data/a.rdf
MaxTriples == 3
\* largest number of fragments concatenated into an input of clean_property_name
MaxFrags == 3
\* largest number of path segments joined into an input of clean_uri_or_property
MaxSegs == 4
\* largest limit / offset tried by the paginated handlers
MaxPage == 2
\* largest number of requests in flight on the event loop
MaxTasks == 2

(***************************************************************************)
(* Python string built-ins used by the handlers.                           *)
(***************************************************************************)
\* s.startswith(p)
StartsWith(s, p) == Len(s) >= Len(p) /\ SubSeq(s, 1, Len(p)) = p

\* p in s
Contains(s, p) ==
    \E i \in 1..(Len(s) - Len(p) + 1) : SubSeq(s, i, i + Len(p) - 1) = p

\* s.replace(old, new): non-overlapping occurrences, left to right, one pass
RECURSIVE Replace(_, _, _)
Replace(s, old, new) ==
    IF Len(s) < Len(old) THEN s
    ELSE IF SubSeq(s, 1, Len(old)) = old
         THEN new \o Replace(SubSeq(s, Len(old) + 1, Len(s)), old, new)
         ELSE SubSeq(s, 1, 1) \o Replace(SubSeq(s, 2, Len(s)), old, new)

\* s.split('/')
RECURSIVE Split(_)
Split(s) ==
    LET idx == {i \in 1..Len(s) : SubSeq(s, i, i) = "/"}
    IN  IF idx = {} THEN <<s>>
        ELSE LET i == CHOOSE k \in idx : \A j \in idx : k <= j
             IN  <<SubSeq(s, 1, i - 1)>> \o Split(SubSeq(s, i + 1, Len(s)))

\* '/'.join(parts)
RECURSIVE Join(_)
Join(parts) ==
    IF Len(parts) = 0 THEN ""
    ELSE IF Len(parts) = 1 THEN parts[1]
    ELSE parts[1] \o "/" \o Join(Tail(parts))

\* s.split('/')[-1]
LocalName(s) == LET parts == Split(s) IN parts[Len(parts)]

\* the elements of a sequence
Range(f) == {f[i] : i \in DOMAIN f}

\* the orders in which an iteration may visit the elements of a set
Orders(S) ==
    {f \in [1..Cardinality(S) -> S] : \A i, j \in DOMAIN f : f[i] = f[j] => i = j}

(***************************************************************************)
(* Identifier clean-up.                                                    *)
(***************************************************************************)
clean_property_name(prop_str) ==
    LET prop_name == LocalName(prop_str)
        a == IF Contains(prop_name, "Property-3A")
             THEN Replace(prop_name, "Property-3A", "") ELSE prop_name
        b == IF Contains(a, "-23aux") THEN Replace(a, "-23aux", "") ELSE a
    IN  IF Contains(b, "http://kb.dansdemo.nl/")
        THEN Replace(b, "http://kb.dansdemo.nl/", "/") ELSE b

\* DedupParts remembering only the part before: repetitions further back stay
RECURSIVE DedupParts_AdjacentOnly(_, _)
DedupParts_AdjacentOnly(parts, seen) ==
    IF Len(parts) = 0 THEN <<>>
    ELSE IF Head(parts) \notin seen
         THEN <<Head(parts)>> \o DedupParts_AdjacentOnly(Tail(parts), {Head(parts)})
         ELSE DedupParts_AdjacentOnly(Tail(parts), seen)

\* the loop of clean_uri_or_property: keep a part unless it was seen before
RECURSIVE DedupParts(_, _)
DedupParts(parts, seen) ==
    IF Len(parts) = 0 THEN <<>>
    ELSE IF Head(parts) \notin seen
         THEN <<Head(parts)>> \o DedupParts(Tail(parts), seen \cup {Head(parts)})
         ELSE DedupParts(Tail(parts), seen)

clean_uri_or_property(uri) ==
    LET u == IF Contains(uri, "file://") THEN Replace(uri, "file://", "") ELSE uri
    IN  Join(DedupParts(Split(u), {}))

(***************************************************************************)
(* RDF terms and triples (rdflib URIRef, Literal, BNode).                  *)
(***************************************************************************)
URIRef(v) == [kind |-> "uri", val |-> v, lang |-> ""]
Literal(v) == [kind |-> "literal", val |-> v, lang |-> ""]
LangLiteral(v, l) == [kind |-> "literal", val |-> v, lang |-> l]
BNode(v) == [kind |-> "bnode", val |-> v, lang |-> ""]

\* str(term)
Str(t) == t.val

Triple(s, p, o) == [s |-> s, p |-> p, o |-> o]

RDFS_label == URIRef("http://www.w3.org/2000/01/rdf-schema#label")

\* the triples the document /data/a.rdf may hold
Universe ==
    LET S1 == URIRef("http://kb/S1")
        S2 == URIRef("http://kb/website")
        participant == URIRef("http://kb/Property-3Aparticipant")
        participantAux == URIRef("http://kb/Property-3Aparticipant-23aux")
        home == URIRef("http://kb/Property-3Ahome")
    IN  { Triple(S1, RDFS_label, Literal("website")),
          Triple(S1, participant, Literal("A")),
          Triple(S1, participant, Literal("B")),
          Triple(S1, participantAux, URIRef("file://A")),
          Triple(S2, home, URIRef("http://kb/a/b/a")),
          Triple(S2, home, URIRef("http://kb/a/b")) }

Docs == {d \in SUBSET Universe : Cardinality(d) <= MaxTriples}

\* the document /data/b.rdf: a subject with a language-tagged and an empty
\* label, a blank node and a reference into the knowledge base of
\* clean_object
DocB ==
    LET S3 == URIRef("https://kb/X")
    IN  { Triple(S3, RDFS_label, LangLiteral("ODISSEI", "en")),
          Triple(S3, RDFS_label, Literal("")),
          Triple(S3, URIRef("http://kb/Property-3Ahome"), BNode("b0")),
          Triple(S3, URIRef("http://kb/Property-3Ahome"),
                 URIRef("http://kb.dansdemo.nl/a/b/a")) }

(***************************************************************************)
(* The file system and the process environment.                            *)
(***************************************************************************)
Absent == [fmt |-> "absent", triples |-> {}]
Garbage == [fmt |-> "garbage", triples |-> {}]
XmlFile(d) == [fmt |-> "xml", triples |-> d]
TurtleFile(d) == [fmt |-> "turtle", triples |-> d]

DataDir == "/data"

Paths ==
    { "/data/a.rdf", "/data/b.rdf", "/data/bad.rdf", "/data/missing.rdf",
      "b.rdf", "dynamic_graph.ttl",
      "/data/dynamic_graph.ttl", "../data/dynamic_graph.ttl" }

\* the file_path arguments of /load
LoadInputs ==
    {"/data/a.rdf", "b.rdf", "/data/bad.rdf", "/data/missing.rdf", "dynamic_graph.ttl"}

\* os.environ.get("DATA_DIR"): <<>> is None, <<d>> is the value d
EnvGet(name) == environ[name]

\* os.path.exists(path)
Exists(path) == fs[path] # Absent

NoGraph == [loaded |-> FALSE, triples |-> {}]
LoadedGraph(d) == [loaded |-> TRUE, triples |-> d]

NoResp == [op |-> "none", status |-> 0]

Init ==
    /\ graph = NoGraph
    /\ namespaces = "None"
    /\ environ \in {[DATA_DIR |-> <<>>], [DATA_DIR |-> <<DataDir>>]}
    /\ \E d \in Docs :
         fs = [p \in Paths |->
                 IF p = "/data/a.rdf" THEN XmlFile(d)
                 ELSE IF p = "/data/b.rdf" THEN XmlFile(DocB)
                 ELSE IF p = "/data/bad.rdf" THEN Garbage
                 ELSE Absent]
    /\ resp = NoResp
    /\ lastLoaded = NoGraph
    /\ tasks = {}

(***************************************************************************)
(* Responses.                                                              *)
(***************************************************************************)
HTTPException(op, arg, status, detail) ==
    [op |-> op, arg |-> arg, status |-> status, detail |-> detail]

Ok(op, arg, body) == [op |-> op, arg |-> arg, status |-> 200, body |-> body]

NotLoaded(op, arg) == HTTPException(op, arg, 404, "No graph loaded")

NoArg == <<>>

\* requests are served one at a time: a handler starts when the response of
\* the request before it has been sent
Idle == resp = NoResp

\* the server sends the handler's result to the client
Respond ==
    /\ resp # NoResp
    /\ resp' = NoResp
    /\ UNCHANGED <<graph, namespaces, environ, fs, lastLoaded, tasks>>

(***************************************************************************)
(* Statistics.                                                             *)
(***************************************************************************)
\* the counting of get_stats
GraphStats(g) ==
    [triples |-> Cardinality(g),
     subjects |-> Cardinality({t.s : t \in g}),
     predicates |-> Cardinality({t.p : t \in g}),
     objects |-> Cardinality({t.o : t \in g})]

\* LoadStats counting the subjects without set(): one per triple
LoadStats_SubjectsPerTriple(g) ==
    [triples |-> Cardinality(g),
     subjects |-> Cardinality(g),
     predicates |-> Cardinality({t.p : t \in g}),
     objects |-> Cardinality({t.o : t \in g})]

\* the counting at the end of load_graph
LoadStats(g) ==
    LET subjects == {t.s : t \in g}
        predicates == {t.p : t \in g}
        objects == {t.o : t \in g}
    IN  [triples |-> Cardinality(g),
         subjects |-> Cardinality(subjects),
         predicates |-> Cardinality(predicates),
         objects |-> Cardinality(objects)]

(***************************************************************************)
(* POST /load                                                              *)
(***************************************************************************)
\* the path load_rdf_graph opens for its argument
ResolvePath(file_path) ==
    IF ~Contains(file_path, "/") /\ EnvGet("DATA_DIR") # <<>>
    THEN EnvGet("DATA_DIR")[1] \o "/" \o file_path
    ELSE file_path

\* serialize_graph writing RDF/XML
serialize_graph_Xml(g, path) == [fs EXCEPT ![path] = XmlFile(g.triples)]

\* the file system after serialize_graph(path) has written graph g
serialize_graph(g, path) == [fs EXCEPT ![path] = TurtleFile(g.triples)]

\* load_rdf_graph(file_path): the graph it installs, or the error it raises
load_rdf_graph(file_path) ==
    LET path == ResolvePath(file_path)
    IN  IF ~Exists(path) THEN [ok |-> FALSE, detail |-> "File not found", g |-> graph]
        ELSE IF fs[path].fmt # "xml"
        THEN [ok |-> FALSE, detail |-> "Error parsing RDF file", g |-> graph]
        ELSE [ok |-> TRUE, detail |-> "", g |-> LoadedGraph(fs[path].triples)]

\* w1, w2: whether the write to the data directory / to the fallback location
\* succeeds
load_graph(file_path, w1, w2) ==
    LET r == load_rdf_graph(file_path)
        arg == <<file_path>>
    IN  /\ UNCHANGED <<environ, tasks>>
        /\ IF ~r.ok
           THEN /\ resp' = HTTPException("load", arg, 500, r.detail)
                /\ UNCHANGED <<graph, namespaces, fs, lastLoaded>>
           ELSE /\ graph' = r.g
                /\ namespaces' = "bound"
                /\ IF EnvGet("DATA_DIR") # <<>> /\ w1
                   THEN /\ fs' = serialize_graph(r.g, EnvGet("DATA_DIR")[1] \o "/dynamic_graph.ttl")
                        /\ resp' = Ok("load", arg, LoadStats(r.g.triples))
                   ELSE IF w2
                   THEN /\ fs' = serialize_graph(r.g, "../data/dynamic_graph.ttl")
                        /\ resp' = Ok("load", arg, LoadStats(r.g.triples))
                   ELSE /\ fs' = fs
                        /\ resp' = HTTPException("load", arg, 500, "snapshot write failed")
                /\ lastLoaded' = IF resp'.status = 200 THEN graph' ELSE lastLoaded

Load == Idle /\ \E file_path \in LoadInputs : \E w1, w2 \in BOOLEAN : load_graph(file_path, w1, w2)

\* QueryFrame of a handler that rebinds the global graph to its result
QueryFrame_RebindsGraph ==
    /\ graph' = LoadedGraph({})
    /\ UNCHANGED <<namespaces, environ, fs, lastLoaded, tasks>>

\* every handler but /load leaves the graph, the files and the environment alone
QueryFrame == UNCHANGED <<graph, namespaces, environ, fs, lastLoaded, tasks>>

(***************************************************************************)
(* GET /stats                                                              *)
(***************************************************************************)
get_stats ==
    /\ Idle
    /\ resp' = IF ~graph.loaded THEN NotLoaded("stats", NoArg)
               ELSE Ok("stats", NoArg, GraphStats(graph.triples))
    /\ QueryFrame

(***************************************************************************)
(* GET /subject/{subject_id}                                               *)
(***************************************************************************)
Scalar(v) == [list |-> FALSE, v |-> <<v>>]
List(vs) == [list |-> TRUE, v |-> vs]

\* the object formatting of extract_properties
ObjValue(obj) ==
    IF obj.kind = "literal" THEN Str(obj)
    ELSE IF obj.kind = "uri" THEN clean_uri_or_property(Str(obj))
    ELSE Str(obj)

\* AddProperty appending to a list without the duplicate check
AddProperty_NoDuplicateCheck(properties, clean_pred, obj_value) ==
    IF clean_pred \in DOMAIN properties
    THEN IF properties[clean_pred].list
         THEN [properties EXCEPT ![clean_pred] = List(Append(@.v, obj_value))]
         ELSE IF properties[clean_pred].v[1] # obj_value
              THEN [properties EXCEPT ![clean_pred] = List(<<@.v[1], obj_value>>)]
              ELSE properties
    ELSE [k \in DOMAIN properties \cup {clean_pred} |->
            IF k = clean_pred THEN Scalar(obj_value) ELSE properties[k]]

\* one iteration of the loop of extract_properties
AddProperty(properties, clean_pred, obj_value) ==
    IF clean_pred \in DOMAIN properties
    THEN IF properties[clean_pred].list
         THEN IF obj_value \notin Range(properties[clean_pred].v)
              THEN [properties EXCEPT ![clean_pred] = List(Append(@.v, obj_value))]
              ELSE properties
         ELSE IF properties[clean_pred].v[1] # obj_value
              THEN [properties EXCEPT ![clean_pred] = List(<<@.v[1], obj_value>>)]
              ELSE properties
    ELSE [k \in DOMAIN properties \cup {clean_pred} |->
            IF k = clean_pred THEN Scalar(obj_value) ELSE properties[k]]

\* pairs: the triples of the subject in the order the store yields them
RECURSIVE extract_properties(_, _)
extract_properties(pairs, properties) ==
    IF Len(pairs) = 0 THEN properties
    ELSE extract_properties(Tail(pairs),
             AddProperty(properties, clean_property_name(Str(Head(pairs).p)),
                         ObjValue(Head(pairs).o)))

EmptyDict == [k \in {} |-> Scalar("")]

TriplesOf(g, s) == {t \in g : t.s = s}

\* ResolveSubject trying the local name before the label
ResolveSubject_NameFirst(g, subject_id) ==
    IF StartsWith(subject_id, "http://") \/ StartsWith(subject_id, "https://")
    THEN {URIRef(subject_id)}
    ELSE LET byLabel == {t.s : t \in {u \in g : u.p = RDFS_label /\ u.o = Literal(subject_id)}}
             byName == {t.s : t \in {u \in g : LocalName(Str(u.s)) = subject_id}}
         IN  IF byName # {} THEN byName ELSE byLabel

\* the subjects the handler may settle on: the first match of the first
\* strategy that has one
ResolveSubject(g, subject_id) ==
    IF StartsWith(subject_id, "http://") \/ StartsWith(subject_id, "https://")
    THEN {URIRef(subject_id)}
    ELSE LET byLabel == {t.s : t \in {u \in g : u.p = RDFS_label /\ u.o = Literal(subject_id)}}
             byName == {t.s : t \in {u \in g : LocalName(Str(u.s)) = subject_id}}
         IN  IF byLabel # {} THEN byLabel ELSE byName

SubjectIds ==
    {"http://kb/S1", "http://kb/nope", "https://kb/X", "website", "ODISSEI", "S1", "nope"}

get_subject(subject_id) ==
    LET arg == <<subject_id>>
        found == ResolveSubject(graph.triples, subject_id)
    IN  /\ IF ~graph.loaded THEN resp' = NotLoaded("get_subject", arg)
           ELSE IF found = {}
           THEN resp' = HTTPException("get_subject", arg, 404, "Subject not found")
           ELSE \E subject_uri \in found :
                \E pairs \in Orders(TriplesOf(graph.triples, subject_uri)) :
                    resp' = Ok("get_subject", arg,
                               [subject |-> Str(subject_uri),
                                properties |-> extract_properties(pairs, EmptyDict)])
        /\ QueryFrame

GetSubject == Idle /\ \E subject_id \in SubjectIds : get_subject(subject_id)

(***************************************************************************)
(* Iteration helpers shared by the list handlers.                          *)
(***************************************************************************)
Min(a, b) == IF a <= b THEN a ELSE b

\* seq[a:b] for 0 <= a <= b
Slice(seq, a, b) == SubSeq(seq, a + 1, Min(b, Len(seq)))

Subjects(g) == {t.s : t \in g}

\* the label a handler shows for subject s when the label loop stops at
\* object o
LabelOr(o, s) == IF Str(o) # "" THEN Str(o) ELSE LocalName(Str(s))

\* the values "label if label else str(s).split('/')[-1]" can take
LabelChoices(g, s) ==
    LET labels == {t.o : t \in {u \in g : u.s = s /\ u.p = RDFS_label}}
    IN  IF labels = {} THEN {LocalName(Str(s))}
        ELSE {LabelOr(o, s) : o \in labels}

Pages == 0..MaxPage

\* "limit: int = 100": the limit of a request that names none
DefaultLimit == 100

Limits == Pages \cup {DefaultLimit}

(***************************************************************************)
(* GET /subjects                                                           *)
(***************************************************************************)
get_subjects(limit, offset) ==
    LET arg == <<limit, offset>>
    IN  /\ IF ~graph.loaded THEN resp' = NotLoaded("get_subjects", arg)
           ELSE \E all_subjects \in Orders(Subjects(graph.triples)) :
                LET paginated_subjects == Slice(all_subjects, offset, offset + limit)
                    choices == UNION {LabelChoices(graph.triples, x) : x \in Range(paginated_subjects)}
                IN  \E label \in [Range(paginated_subjects) -> choices] :
                      /\ \A x \in Range(paginated_subjects) :
                            label[x] \in LabelChoices(graph.triples, x)
                      /\ resp' = Ok("get_subjects", arg,
                                    [i \in DOMAIN paginated_subjects |->
                                        [uri |-> Str(paginated_subjects[i]),
                                         label |-> label[paginated_subjects[i]]]])
        /\ QueryFrame

GetSubjects ==
    Idle /\ \E limit \in Limits : \E offset \in Pages : get_subjects(limit, offset)

(***************************************************************************)
(* GET /search                                                             *)
(***************************************************************************)
UpperChars == "ABCDEFGHIJKLMNOPQRSTUVWXYZ"
LowerChars == "abcdefghijklmnopqrstuvwxyz"

LowerChar(c) ==
    IF \E i \in 1..Len(UpperChars) : SubSeq(UpperChars, i, i) = c
    THEN LET i == CHOOSE k \in 1..Len(UpperChars) : SubSeq(UpperChars, k, k) = c
         IN  SubSeq(LowerChars, i, i)
    ELSE c

\* s.lower()
RECURSIVE Lower(_)
Lower(s) == IF Len(s) = 0 THEN "" ELSE LowerChar(SubSeq(s, 1, 1)) \o Lower(SubSeq(s, 2, Len(s)))

\* the loop of search_subjects over the label triples trs
RECURSIVE SearchLoop(_, _, _, _)
SearchLoop(trs, q, limit, results) ==
    IF Len(trs) = 0 THEN results
    ELSE LET label == Str(Head(trs).o)
         IN  IF Contains(Lower(label), Lower(q))
             THEN LET r == Append(results, [uri |-> Str(Head(trs).s), label |-> label])
                  IN  IF Len(r) >= limit THEN r
                      ELSE SearchLoop(Tail(trs), q, limit, r)
             ELSE SearchLoop(Tail(trs), q, limit, results)

SearchQueries == {"web", "ODI", "zzz", ""}

search_subjects(q, limit) ==
    LET arg == <<q, limit>>
    IN  /\ IF ~graph.loaded THEN resp' = NotLoaded("search", arg)
           ELSE \E trs \in Orders({t \in graph.triples : t.p = RDFS_label}) :
                    resp' = Ok("search", arg, SearchLoop(trs, q, limit, <<>>))
        /\ QueryFrame

SearchSubjects == Idle /\ \E q \in SearchQueries : \E limit \in Limits : search_subjects(q, limit)

(***************************************************************************)
(* POST /sparql                                                            *)
(***************************************************************************)
\* request bodies: no "query" key, an empty query, malformed text, and the
\* query of the test suite
NoQuery == [query |-> <<>>]
SelectSubjects == "SELECT ?s WHERE { ?s ?p ?o }"
SparqlBodies == {NoQuery, [query |-> <<"">>], [query |-> <<"SELEKT">>], [query |-> <<SelectSubjects>>]}

\* execute_sparql reporting the errors of the query as server errors
execute_sparql_ServerError(query) ==
    LET arg == <<query>>
        sparql_query == query.query
    IN  /\ IF ~graph.loaded THEN resp' = NotLoaded("sparql", arg)
           ELSE IF sparql_query = <<>> \/ sparql_query = <<"">>
           THEN resp' = HTTPException("sparql", arg, 500, "SPARQL query error: query is required")
           ELSE IF sparql_query[1] # SelectSubjects
           THEN resp' = HTTPException("sparql", arg, 500, "SPARQL query error: parse")
           ELSE \E rows \in Orders(graph.triples) :
                    resp' = Ok("sparql", arg, [i \in DOMAIN rows |-> [s |-> Str(rows[i].s)]])
        /\ QueryFrame

execute_sparql(query) ==
    LET arg == <<query>>
        sparql_query == query.query
    IN  /\ IF ~graph.loaded THEN resp' = NotLoaded("sparql", arg)
           ELSE IF sparql_query = <<>> \/ sparql_query = <<"">>
           THEN resp' = HTTPException("sparql", arg, 400, "SPARQL query error: query is required")
           ELSE IF sparql_query[1] # SelectSubjects
           THEN resp' = HTTPException("sparql", arg, 400, "SPARQL query error: parse")
           ELSE \E rows \in Orders(graph.triples) :
                    resp' = Ok("sparql", arg, [i \in DOMAIN rows |-> [s |-> Str(rows[i].s)]])
        /\ QueryFrame

ExecuteSparql == Idle /\ \E query \in SparqlBodies : execute_sparql(query)

(***************************************************************************)
(* GET /properties, GET /unique_objects: sorted(...)                       *)
(***************************************************************************)
\* the characters of the identifiers and literals, in code point order
Ascii == " #-./0123456789:ABCDEFGHIJKLMNOPQRSTUVWXYZ_abcdefghijklmnopqrstuvwxyz"

Ord(c) == CHOOSE i \in 1..Len(Ascii) : SubSeq(Ascii, i, i) = c

\* a < b for Python strings
RECURSIVE StrLess(_, _)
StrLess(a, b) ==
    IF Len(b) = 0 THEN FALSE
    ELSE IF Len(a) = 0 THEN TRUE
    ELSE IF SubSeq(a, 1, 1) = SubSeq(b, 1, 1)
         THEN StrLess(SubSeq(a, 2, Len(a)), SubSeq(b, 2, Len(b)))
         ELSE Ord(SubSeq(a, 1, 1)) < Ord(SubSeq(b, 1, 1))

\* Sorted in descending order
Sorted_Descending(S) ==
    CHOOSE f \in Orders(S) : \A i, j \in DOMAIN f : i < j => StrLess(f[j], f[i])

\* sorted(list(S)) for a set S of strings
Sorted(S) == CHOOSE f \in Orders(S) : \A i, j \in DOMAIN f : i < j => StrLess(f[i], f[j])

get_properties ==
    /\ Idle
    /\ resp' = IF ~graph.loaded THEN NotLoaded("get_properties", NoArg)
               ELSE Ok("get_properties", NoArg,
                       Sorted({clean_property_name(Str(t.p)) : t \in graph.triples}))
    /\ QueryFrame

clean_object(obj) ==
    IF obj.kind = "literal" THEN Str(obj)
    ELSE IF obj.kind = "uri"
         THEN IF Contains(Str(obj), "http://kb.dansdemo.nl/")
              THEN Replace(Str(obj), "http://kb.dansdemo.nl/", "/")
              ELSE clean_uri_or_property(Str(obj))
         ELSE Str(obj)

get_unique_objects ==
    /\ Idle
    /\ resp' = IF ~graph.loaded THEN NotLoaded("get_unique_objects", NoArg)
               ELSE Ok("get_unique_objects", NoArg,
                       Sorted({clean_object(t.o) : t \in graph.triples}))
    /\ QueryFrame

(***************************************************************************)
(* GET /unique_subjects                                                    *)
(***************************************************************************)
get_unique_subjects ==
    /\ Idle
    /\ IF ~graph.loaded THEN resp' = NotLoaded("get_unique_subjects", NoArg)
       ELSE \E unique_subjects \in Orders(Subjects(graph.triples)) :
                resp' = Ok("get_unique_subjects", NoArg,
                           [i \in DOMAIN unique_subjects |-> Str(unique_subjects[i])])
    /\ QueryFrame

(***************************************************************************)
(* GET /property/{property_name}                                           *)
(***************************************************************************)
\* clean_property_name(p) for the predicates p of the documents
CleanedPredicate ==
    [p \in {t.p : t \in Universe \cup DocB} |-> clean_property_name(Str(p))]

\* store: the triples in the order the store yields them.  graph.predicates()
\* yields the predicate of every triple, so a predicate of n triples is
\* yielded n times.
\* MatchingPredicates stopping at the first predicate that matches
MatchingPredicates_StopAtFirst(store, property_name) ==
    LET m == SelectSeq(store, LAMBDA t : CleanedPredicate[t.p] = property_name)
    IN  IF Len(m) = 0 THEN <<>> ELSE <<m[1].p>>

MatchingPredicates(store, property_name) ==
    LET m == SelectSeq(store, LAMBDA t : CleanedPredicate[t.p] = property_name)
    IN  [i \in DOMAIN m |-> m[i].p]

\* graph.subject_objects(pred)
SubjectObjects(store, pred) == SelectSeq(store, LAMBDA t : t.p = pred)

RECURSIVE AllPairs(_, _)
AllPairs(store, matching_predicates) ==
    IF Len(matching_predicates) = 0 THEN <<>>
    ELSE SubjectObjects(store, Head(matching_predicates))
            \o AllPairs(store, Tail(matching_predicates))

\* the object formatting of get_property_values
PropertyValue(o) == IF o.kind = "literal" THEN Str(o) ELSE clean_object(o)

\* the rows built from the page of pairs, label[s] being the label shown for s
PropertyRows(paginated_pairs, label) ==
    [i \in DOMAIN paginated_pairs |->
        [subject_uri |-> Str(paginated_pairs[i].s),
         subject_label |-> label[paginated_pairs[i].s],
         value |-> PropertyValue(paginated_pairs[i].o)]]

\* the labels the label loops may settle on for the subjects in ss
LabelMaps(g, ss) ==
    {label \in [ss -> UNION {LabelChoices(g, x) : x \in ss}] :
        \A x \in ss : label[x] \in LabelChoices(g, x)}

PropertyNames == {"participant", "home", "label", "nope"}

\* the responses the handler can give when the store yields its triples in
\* the order store
PropertyResponses(store, arg, property_name, limit, offset) ==
    LET matching_predicates == MatchingPredicates(store, property_name)
        paginated_pairs == Slice(AllPairs(store, matching_predicates), offset, offset + limit)
    IN  IF Len(matching_predicates) = 0
        THEN {HTTPException("get_property_values", arg, 404, "Property not found")}
        ELSE {Ok("get_property_values", arg, PropertyRows(paginated_pairs, label)) :
                 label \in LabelMaps(Range(store), {t.s : t \in Range(paginated_pairs)})}

get_property_values(property_name, limit, offset) ==
    LET arg == <<property_name, limit, offset>>
    IN  /\ IF ~graph.loaded THEN resp' = NotLoaded("get_property_values", arg)
           ELSE \E store \in Orders(graph.triples) :
                    resp' \in PropertyResponses(store, arg, property_name, limit, offset)
        /\ QueryFrame

GetPropertyValues ==
    Idle /\ \E property_name \in PropertyNames : \E limit \in Limits : \E offset \in Pages :
        get_property_values(property_name, limit, offset)

(***************************************************************************)
(* AnsweringMachine.rdf_to_dataframe: the turtle reader of the snapshots.  *)
(***************************************************************************)
\* the exception a function raises to its caller
Raised(op, arg, detail) == [op |-> op, arg |-> arg, status |-> 0 - 1, detail |-> detail]

\* the parser names the blank nodes of a document anew
Relabel(term) == IF term.kind = "bnode" THEN BNode("n" \o term.val) ELSE term

\* Graph().parse(rdf_file, format='turtle') of a turtle document
ParseTurtle(file) == {Triple(Relabel(t.s), t.p, Relabel(t.o)) : t \in file.triples}

SnapshotPaths == {"/data/dynamic_graph.ttl", "../data/dynamic_graph.ttl"}

RdfFiles == SnapshotPaths \cup {"/data/a.rdf"}

rdf_to_dataframe(rdf_file) ==
    LET arg == <<rdf_file>>
    IN  /\ IF ~Exists(rdf_file)
           THEN resp' = Raised("rdf_to_dataframe", arg, "File not found")
           ELSE IF fs[rdf_file].fmt # "turtle"
           THEN resp' = Raised("rdf_to_dataframe", arg, "Error parsing RDF file")
           ELSE \E data \in Orders(ParseTurtle(fs[rdf_file])) :
                    resp' = Ok("rdf_to_dataframe", arg,
                               [i \in DOMAIN data |->
                                   [subject |-> Str(data[i].s),
                                    predicate |-> Str(data[i].p),
                                    object |-> Str(data[i].o)]])
        /\ QueryFrame

RdfToDataframe == Idle /\ \E rdf_file \in RdfFiles : rdf_to_dataframe(rdf_file)

(***************************************************************************)
(* The clean-up functions applied to bounded sets of identifiers.          *)
(***************************************************************************)
\* the words of at most n pieces drawn from frags
RECURSIVE Words(_, _)
Words(frags, n) ==
    IF n = 0 THEN {""}
    ELSE LET shorter == Words(frags, n - 1)
         IN  shorter \cup {w \o f : w \in shorter, f \in frags}

PredicateFragments == {"Prop", "erty-3A", "Property-3A", "-23", "aux", "-23aux", "/", "p"}

PredicateInputs == Words(PredicateFragments, MaxFrags)

\* the sequences of 1..n segments drawn from segs
RECURSIVE SegmentSeqs(_, _)
SegmentSeqs(segs, n) ==
    IF n = 1 THEN {<<x>> : x \in segs}
    ELSE LET shorter == SegmentSeqs(segs, n - 1)
         IN  shorter \cup {Append(q, x) : q \in shorter, x \in segs}

Segments == {"", "a", "b", "c", "A", "file:"}

ReferenceInputs == {Join(q) : q \in SegmentSeqs(Segments, MaxSegs)}

NormalizePredicate ==
    /\ Idle
    /\ \E x \in PredicateInputs :
          resp' = Ok("clean_property_name", <<x>>, clean_property_name(x))
    /\ QueryFrame

NormalizeReference ==
    /\ Idle
    /\ \E x \in ReferenceInputs :
          resp' = Ok("clean_uri_or_property", <<x>>, clean_uri_or_property(x))
    /\ QueryFrame

Next ==
    \/ Load
    \/ get_stats
    \/ GetSubjects
    \/ GetSubject
    \/ SearchSubjects
    \/ ExecuteSparql
    \/ get_properties
    \/ GetPropertyValues
    \/ get_unique_subjects
    \/ get_unique_objects
    \/ RdfToDataframe
    \/ Respond

Spec == Init /\ [][Next]_vars

\* the clean-up functions alone, from one initial state
InitNorm ==
    /\ Init
    /\ environ = [DATA_DIR |-> <<DataDir>>]
    /\ fs["/data/a.rdf"] = XmlFile({})

NextNorm ==
    \/ NormalizePredicate
    \/ NormalizeReference
    \/ Respond

SpecNorm == InitNorm /\ [][NextNorm]_vars

(***************************************************************************)
(* Properties.                                                             *)
(***************************************************************************)
(***************************************************************************)
(* The event loop: the requests in flight and the coroutines of their      *)
(* handlers, statement by statement.                                       *)
(***************************************************************************)
NoLocals == [g |-> {}, subjects |-> 0, predicates |-> 0, objects |-> 0]

\* the coroutine of a request: pc is the statement it stands at ("ready"
\* before its first one), loc its local variables
Task(op, arg) == [op |-> op, arg |-> arg, pc |-> "ready", loc |-> NoLocals]

ConcRequests ==
    {Task("stats", NoArg)}
        \cup {Task("load", <<p>>) : p \in {"/data/a.rdf", "b.rdf", "/data/bad.rdf"}}

\* the server accepts a request at any time
Accept ==
    /\ Cardinality(tasks) < MaxTasks
    /\ \E t \in ConcRequests : t \notin tasks /\ tasks' = tasks \cup {t}
    /\ UNCHANGED <<graph, namespaces, environ, fs, resp, lastLoaded>>

\* CanStart of handlers that run in threads: one may start at any time
CanStart_Preemptive == TRUE

\* every handler is an "async def" without an await: the event loop runs the
\* coroutine it has started to its end before it starts another one
CanStart == \A t \in tasks : t.pc = "ready"

Runnable(t) == t.pc = "ready" => CanStart

Continue(t, u) == (tasks \ {t}) \cup {u}
Return(t) == tasks \ {t}

\* get_stats, one statement at a time
stats_task(t) ==
    /\ Runnable(t)
    /\ UNCHANGED <<graph, namespaces, environ, fs, lastLoaded>>
    /\ IF t.pc = "ready"
       THEN IF ~graph.loaded
            THEN /\ resp' = NotLoaded("stats", NoArg)
                 /\ tasks' = Return(t)
            ELSE /\ tasks' = Continue(t, [t EXCEPT !.pc = "predicates",
                                   !.loc.subjects = Cardinality({x.s : x \in graph.triples})])
                 /\ resp' = resp
       ELSE IF t.pc = "predicates"
       THEN /\ tasks' = Continue(t, [t EXCEPT !.pc = "objects",
                              !.loc.predicates = Cardinality({x.p : x \in graph.triples})])
            /\ resp' = resp
       ELSE IF t.pc = "objects"
       THEN /\ tasks' = Continue(t, [t EXCEPT !.pc = "return",
                              !.loc.objects = Cardinality({x.o : x \in graph.triples})])
            /\ resp' = resp
       ELSE /\ resp' = Ok("stats", NoArg,
                          [triples |-> Cardinality(graph.triples),
                           subjects |-> t.loc.subjects,
                           predicates |-> t.loc.predicates,
                           objects |-> t.loc.objects])
            /\ tasks' = Return(t)

RunStats == \E t \in tasks : t.op = "stats" /\ stats_task(t)

\* load_graph and load_rdf_graph, one statement at a time; the parser adds
\* the triples of the document to the local graph g one by one
load_task(t, w1, w2) ==
    LET path == ResolvePath(t.arg[1])
        Raise(detail) ==
            /\ resp' = HTTPException("load", t.arg, 500, detail)
            /\ tasks' = Return(t)
        Goto(u) == tasks' = Continue(t, u) /\ resp' = resp
    IN  /\ Runnable(t)
        /\ UNCHANGED environ
        /\ IF t.pc = "ready"
           THEN /\ UNCHANGED <<graph, namespaces, fs, lastLoaded>>
                /\ IF ~Exists(path) THEN Raise("File not found")
                   ELSE Goto([t EXCEPT !.pc = "parse"])
           ELSE IF t.pc = "parse"
           THEN /\ UNCHANGED <<graph, namespaces, fs, lastLoaded>>
                /\ IF fs[path].fmt # "xml" THEN Raise("Error parsing RDF file")
                   ELSE IF t.loc.g # fs[path].triples
                   THEN \E x \in fs[path].triples \ t.loc.g :
                            Goto([t EXCEPT !.loc.g = @ \cup {x}])
                   ELSE Goto([t EXCEPT !.pc = "install"])
           ELSE IF t.pc = "install"
           THEN /\ graph' = LoadedGraph(t.loc.g)
                /\ namespaces' = "bound"
                /\ UNCHANGED <<fs, lastLoaded>>
                /\ Goto([t EXCEPT !.pc = "serialize"])
           ELSE IF t.pc = "serialize"
           THEN /\ UNCHANGED <<graph, namespaces, lastLoaded>>
                /\ IF EnvGet("DATA_DIR") # <<>> /\ w1
                   THEN /\ fs' = serialize_graph(graph, EnvGet("DATA_DIR")[1] \o "/dynamic_graph.ttl")
                        /\ Goto([t EXCEPT !.pc = "count"])
                   ELSE IF w2
                   THEN /\ fs' = serialize_graph(graph, "../data/dynamic_graph.ttl")
                        /\ Goto([t EXCEPT !.pc = "count"])
                   ELSE /\ fs' = fs
                        /\ Raise("snapshot write failed")
           ELSE /\ resp' = Ok("load", t.arg, LoadStats(graph.triples))
                /\ lastLoaded' = graph
                /\ tasks' = Return(t)
                /\ UNCHANGED <<graph, namespaces, fs>>

RunLoad == \E t \in tasks : t.op = "load" /\ \E w1, w2 \in BOOLEAN : load_task(t, w1, w2)

NextConc ==
    \/ Accept
    \/ RunStats
    \/ RunLoad

\* the event loop started on one document for /data/a.rdf
InitConc ==
    /\ Init
    /\ fs["/data/a.rdf"] =
          XmlFile({t \in Universe : t.o \in {Literal("website"), Literal("A"),
                                             URIRef("http://kb/a/b")}})

SpecConc == InitConc /\ [][NextConc]_vars

QueryOps ==
    {"stats", "get_subjects", "get_subject", "search", "sparql", "get_properties",
     "get_property_values", "get_unique_subjects", "get_unique_objects"}

IsNotLoaded(r) == r.status = 404 /\ r.detail = "No graph loaded"
IsNotFound(r) == r.status = 404 /\ r.detail # "No graph loaded"

LooksLikeUri(x) == StartsWith(x, "http://") \/ StartsWith(x, "https://")

\* C1: until a load call has returned its stats object, every query
\* operation answers NotLoaded, whatever failed load calls came before.
C1_NotLoadedUntilSuccessfulLoad ==
    (resp.op \in QueryOps /\ ~lastLoaded.loaded) => IsNotLoaded(resp)

\* C2: a load call that returns an error leaves the live graph exactly as it
\* was before the call.
C2_FailedLoadKeepsGraph ==
    [][(resp'.op = "load" /\ resp'.status # 200) => graph' = graph]_vars

\* C3: when the document exists and parses, load returns the stats object,
\* whether or not the snapshot writes succeed.
C3_SnapshotFailureNeverFailsLoad ==
    (/\ resp.op = "load"
     /\ Exists(ResolvePath(resp.arg[1]))
     /\ fs[ResolvePath(resp.arg[1])].fmt = "xml")
        => resp.status = 200

\* C4: the triples visible to queries are exactly those of the most recent
\* successfully loaded document (none before the first successful load).
C4_LiveGraphIsLastSuccessfulLoad == graph = lastLoaded

\* C5: stats reports the number of triples ingested and the numbers of
\* distinct subjects, predicates and objects, and the stats object a
\* successful load returns is the one stats returns on the graph it installed.
C5_StatsCountTheGraph ==
    /\ (resp.op = "stats" /\ resp.status = 200) =>
          /\ resp.body.triples = Cardinality(graph.triples)
          /\ resp.body.subjects = Cardinality({t.s : t \in graph.triples})
          /\ resp.body.predicates = Cardinality({t.p : t \in graph.triples})
          /\ resp.body.objects = Cardinality({t.o : t \in graph.triples})
    /\ (resp.op = "load" /\ resp.status = 200) =>
          /\ graph.triples = fs[ResolvePath(resp.arg[1])].triples
          /\ resp.body = GraphStats(graph.triples)

\* a successful load of a document in which a subject has several triples
C5_Witness ==
    /\ resp.op = "load" /\ resp.status = 200
    /\ resp.body.triples = 3
    /\ resp.body.subjects = 2
    /\ resp.body.objects = 3

\* C6: cleaning a cleaned predicate name changes nothing.
C6_CleanPropertyNameIdempotent ==
    resp.op = "clean_property_name" => clean_property_name(resp.body) = resp.body

\* the parts of a sequence without the repetitions of earlier parts: no part
\* twice, the same set of parts, ordered by first occurrence
IsFirstOccurrences(out, parts) ==
    LET First(x) == CHOOSE i \in DOMAIN parts : parts[i] = x /\ \A j \in 1..(i - 1) : parts[j] # x
    IN  /\ \A i, j \in DOMAIN out : out[i] = out[j] => i = j
        /\ Range(out) = Range(parts)
        /\ \A i, j \in DOMAIN out : i < j => First(out[i]) < First(out[j])

\* C7 as stated: the result is the '/'-join of the input's segments, each
\* distinct segment once, at its first occurrence.
C7_DedupSegmentsOfInput ==
    resp.op = "clean_uri_or_property" =>
        IsFirstOccurrences(Split(resp.body), Split(resp.arg[1]))

\* C7 amended: the result is the '/'-join of the segments that the input has
\* once its occurrences of "file://" are removed, each distinct segment once,
\* at its first occurrence.
C7_DedupSegmentsAfterFileStrip ==
    resp.op = "clean_uri_or_property" =>
        IsFirstOccurrences(Split(resp.body), Split(Replace(resp.arg[1], "file://", "")))

\* the example of the specification
C7_Witness ==
    /\ resp.op = "clean_uri_or_property"
    /\ resp.arg = <<"a/b/a/c">>
    /\ resp.body = "a/b/c"

\* C8: a full URI that is a subject of the graph is answered with that
\* subject and a non-empty property map; a full URI that is not is answered
\* NotFound.
C8_FullUriLookup ==
    (resp.op = "get_subject" /\ graph.loaded /\ LooksLikeUri(resp.arg[1])) =>
        IF URIRef(resp.arg[1]) \in Subjects(graph.triples)
        THEN /\ resp.status = 200
             /\ resp.body.subject = resp.arg[1]
             /\ DOMAIN resp.body.properties # {}
        ELSE IsNotFound(resp)

\* C9: get_subject takes a URI-looking input as the subject; otherwise a
\* subject labelled exactly by the input; otherwise a subject whose last path
\* segment is the input; otherwise it answers NotFound.
C9_ResolutionOrder ==
    (resp.op = "get_subject" /\ graph.loaded) =>
        LET id == resp.arg[1]
            g == graph.triples
            labelled == {s \in Subjects(g) : Triple(s, RDFS_label, Literal(id)) \in g}
            named == {s \in Subjects(g) : LocalName(Str(s)) = id}
        IN  IF LooksLikeUri(id) THEN resp.status = 200 /\ resp.body.subject = id
            ELSE IF labelled # {}
            THEN resp.status = 200 /\ resp.body.subject \in {Str(s) : s \in labelled}
            ELSE IF named # {}
            THEN resp.status = 200 /\ resp.body.subject \in {Str(s) : s \in named}
            ELSE IsNotFound(resp)

\* the label "website" of S1 wins over the last path segment of
\* http://kb/website
C9_Witness ==
    /\ resp.op = "get_subject" /\ resp.status = 200
    /\ resp.arg = <<"website">>
    /\ URIRef("http://kb/website") \in Subjects(graph.triples)
    /\ resp.body.subject = "http://kb/S1"

\* C10: in a property map a name maps to a list exactly when the subject has
\* at least 2 distinct normalized values under that name, the list holding
\* each of them once; otherwise it maps to the single value.
C10_ListOnlyForDistinctValues ==
    (resp.op = "get_subject" /\ resp.status = 200) =>
        LET mine == {t \in graph.triples : Str(t.s) = resp.body.subject}
            names == {clean_property_name(Str(t.p)) : t \in mine}
            Values(k) == {ObjValue(t.o) : t \in {u \in mine : clean_property_name(Str(u.p)) = k}}
            properties == resp.body.properties
        IN  /\ DOMAIN properties = names
            /\ \A k \in names :
                  /\ properties[k].list <=> Cardinality(Values(k)) >= 2
                  /\ Len(properties[k].v) = Cardinality(Values(k))
                  /\ Range(properties[k].v) = Values(k)

\* participant has the raw values "A", "B" and file://A, which is "A" again
\* once normalized: a list of the two distinct values
C10_Witness ==
    /\ resp.op = "get_subject" /\ resp.status = 200
    /\ resp.body.subject = "http://kb/S1"
    /\ Cardinality({t \in graph.triples : clean_property_name(Str(t.p)) = "participant"}) = 3
    /\ resp.body.properties["participant"].list
    /\ Range(resp.body.properties["participant"].v) = {"A", "B"}

\* the triples of graph g whose predicate normalizes to name
MatchingTriples(g, name) == {t \in g : clean_property_name(Str(t.p)) = name}

\* the (subject, value) pairs of the rows of a property_values response
RowPairs(rows) == [i \in DOMAIN rows |-> <<rows[i].subject_uri, rows[i].value>>]

\* the (subject, value) pairs of a sequence of triples
TriplePairs(trs) == [i \in DOMAIN trs |-> <<Str(trs[i].s), PropertyValue(trs[i].o)>>]

\* C11: a property_values call returns at most limit rows, and its page is
\* rows offset..offset+limit-1 of one combined list that holds every
\* matching (subject, value) pair exactly once.
C11_PagesOfEachPairOnce ==
    (resp.op = "get_property_values" /\ resp.status = 200) =>
        LET limit == resp.arg[2]
            offset == resp.arg[3]
        IN  /\ Len(resp.body) <= limit
            /\ \E combined \in Orders(MatchingTriples(graph.triples, resp.arg[1])) :
                  RowPairs(resp.body) = Slice(TriplePairs(combined), offset, offset + limit)

\* C12: property_values(name) answers NotFound exactly when no predicate of
\* the graph normalizes to name; otherwise its rows come from the triples
\* whose predicate normalizes to name, whatever their raw predicate, and from
\* no other triple, and the full list holds every one of them.
C12_GathersTriplesOfTheName ==
    (resp.op = "get_property_values" /\ graph.loaded) =>
        LET matching == MatchingTriples(graph.triples, resp.arg[1])
            pairs == {<<Str(t.s), PropertyValue(t.o)>> : t \in matching}
        IN  /\ IsNotFound(resp) <=> matching = {}
            /\ resp.status = 200 =>
                  /\ Range(RowPairs(resp.body)) \subseteq pairs
                  /\ (resp.arg[2] = DefaultLimit /\ resp.arg[3] = 0) =>
                        Range(RowPairs(resp.body)) = pairs

\* two raw predicates, Property-3Aparticipant and
\* Property-3Aparticipant-23aux, gathered under the name participant
C12_Witness ==
    /\ resp.op = "get_property_values" /\ resp.status = 200
    /\ resp.arg = <<"participant", DefaultLimit, 0>>
    /\ Cardinality({t.p : t \in MatchingTriples(graph.triples, "participant")}) = 2
    /\ Range(RowPairs(resp.body)) = {<<"http://kb/S1", "A">>, <<"http://kb/S1", "B">>}
    /\ Cardinality({t \in graph.triples : t.p # RDFS_label}) = 2

\* the label triples of graph g whose object text contains q, case ignored
MatchingLabels(g, q) ==
    {t \in g : t.p = RDFS_label /\ Contains(Lower(Str(t.o)), Lower(q))}

\* C13: search returns only label triples whose object text contains the
\* query, case ignored, and for every limit >= 0 it returns
\* min(limit, number of matching label triples) entries, so at most limit.
C13_SearchStopsAtLimit ==
    (resp.op = "search" /\ resp.status = 200) =>
        LET matching == MatchingLabels(graph.triples, resp.arg[1])
            limit == resp.arg[2]
        IN  /\ \A i \in DOMAIN resp.body :
                  \E t \in matching :
                      resp.body[i] = [uri |-> Str(t.s), label |-> Str(t.o)]
            /\ Len(resp.body) <= limit
            /\ Len(resp.body) = Min(limit, Cardinality(matching))

\* C14: on a loaded graph a structured query with missing, empty or
\* malformed text is answered with a client error (400) and leaves the graph
\* as it was; a well-formed query is answered with one row per solution, each
\* row mapping the projected variable to a string of the graph.
C14_QueryErrorIsClientError ==
    [][(resp'.op = "sparql" /\ graph.loaded) =>
          /\ graph' = graph
          /\ IF resp'.arg[1].query # <<SelectSubjects>>
             THEN resp'.status = 400
             ELSE /\ resp'.status = 200
                  /\ Len(resp'.body) = Cardinality(graph.triples)
                  /\ \A i \in DOMAIN resp'.body : DOMAIN resp'.body[i] = {"s"}
                  /\ \A x \in Subjects(graph.triples) :
                        Cardinality({i \in DOMAIN resp'.body : resp'.body[i].s = Str(x)})
                            = Cardinality(TriplesOf(graph.triples, x))]_vars

\* malformed text answered 400 while a document of three triples is loaded
C14_Witness ==
    /\ resp.op = "sparql" /\ resp.status = 400
    /\ resp.arg = <<[query |-> <<"SELEKT">>]>>
    /\ graph.loaded /\ Cardinality(graph.triples) = 3

\* the documents a load can install
FullDocuments == {fs[p].triples : p \in {q \in Paths : fs[q].fmt = "xml"}}

\* C15: whatever requests are in flight, the graph a query can see is never
\* a partly parsed document, and the numbers a stats query returns all come
\* from one graph, the one live when it returns.
C15_QueriesSeeOneGraph ==
    [][/\ graph'.loaded => graph'.triples \in FullDocuments
       /\ \A t \in tasks :
             (t.op = "stats" /\ t.pc = "return" /\ t \notin tasks') =>
                 /\ graph' = graph
                 /\ resp' = Ok("stats", NoArg, GraphStats(graph.triples))]_vars

\* a stats query about to return while the load of another document is in
\* flight
C15_Witness ==
    /\ graph.loaded
    /\ \E t \in tasks : t.op = "stats" /\ t.pc = "return"
    /\ \E u \in tasks :
          /\ u.op = "load" /\ u.pc = "ready"
          /\ fs[ResolvePath(u.arg[1])].fmt = "xml"
          /\ GraphStats(fs[ResolvePath(u.arg[1])].triples) # GraphStats(graph.triples)

\* the texts of the label triples of subject s in graph g
LabelTexts(g, s) == {Str(t.o) : t \in {u \in g : u.s = s /\ u.p = RDFS_label}}

\* C16: every entry of list_subjects carries the URI of a subject and, as
\* its label, the object of one of the subject's label triples when it has
\* one, the last path segment of the URI otherwise; the entries are the slice
\* [offset, offset+limit) of the subjects, each subject listed once.
C16_SubjectsWithLabelOrSegment ==
    (resp.op = "get_subjects" /\ resp.status = 200) =>
        LET g == graph.triples
            limit == resp.arg[1]
            offset == resp.arg[2]
            uris == [i \in DOMAIN resp.body |-> resp.body[i].uri]
        IN  /\ \A i \in DOMAIN resp.body :
                  LET labels == LabelTexts(g, URIRef(uris[i]))
                  IN  IF labels # {} THEN resp.body[i].label \in labels
                      ELSE resp.body[i].label = LocalName(uris[i])
            /\ \A i, j \in DOMAIN uris : uris[i] = uris[j] => i = j
            /\ \E all_subjects \in Orders(Subjects(g)) :
                  uris = Slice([i \in DOMAIN all_subjects |-> Str(all_subjects[i])],
                               offset, offset + limit)

\* seq is in ascending order, no string twice
Ascending(seq) == \A i, j \in DOMAIN seq : i < j => StrLess(seq[i], seq[j])

\* C17: list_properties returns the normalized names of the predicates of
\* the graph and unique_objects the normalized value strings of its objects,
\* each string once and in ascending lexicographic order.
C17_SortedDistinctNames ==
    /\ (resp.op = "get_properties" /\ resp.status = 200) =>
          /\ Range(resp.body) = {clean_property_name(Str(t.p)) : t \in graph.triples}
          /\ Ascending(resp.body)
    /\ (resp.op = "get_unique_objects" /\ resp.status = 200) =>
          /\ Range(resp.body) = {clean_object(t.o) : t \in graph.triples}
          /\ Ascending(resp.body)

\* the literal "A" and the reference file://A are listed as the one string
\* "A", before "B"
C17_Witness ==
    /\ resp.op = "get_unique_objects" /\ resp.status = 200
    /\ {t.o : t \in graph.triples} = {Literal("A"), URIRef("file://A"), Literal("B")}
    /\ resp.body = <<"A", "B">>

C19_OneValueNormalization ==
    /\ (resp.op = "get_unique_objects" /\ resp.status = 200) =>
          Range(resp.body) = {ObjValue(t.o) : t \in graph.triples}
    /\ (resp.op = "get_property_values" /\ resp.status = 200) =>
          \A i \in DOMAIN resp.body :
              \E t \in MatchingTriples(graph.triples, resp.arg[1]) :
                  /\ Str(t.s) = resp.body[i].subject_uri
                  /\ ObjValue(t.o) = resp.body[i].value

\* C20: a step that changes the live graph, its loaded status or the files
\* is a load: no query, answered or refused, changes them.
C20_QueriesAreReadOnly ==
    [][/\ resp'.op \in QueryOps =>
            /\ graph' = graph
            /\ namespaces' = namespaces
            /\ fs' = fs
       /\ graph' # graph => resp'.op = "load"]_vars

\* a query refused with NotFound while a document of three triples is live
C20_Witness ==
    /\ resp.op = "get_property_values" /\ IsNotFound(resp)
    /\ graph.loaded /\ Cardinality(graph.triples) = 3
    /\ graph = lastLoaded

====
